---------------------------- MODULE Spec2Model ----------------------------
(***************************************************************************)
(* Binance testnet trading bot: the command line front end                *)
(* (src/trading_bot.py) and the desktop front end (src/trading_bot_ui.py). *)
(*                                                                         *)
(* One request is followed from the raw text the user typed to the calls  *)
(* made on the exchange client.  Texts are sequences of one-character     *)
(* strings, decimals are (coefficient, exponent) pairs as in Python's     *)
(* decimal module, and every call on the exchange client either returns   *)
(* an acknowledgment or raises.                                           *)
(***************************************************************************)
EXTENDS Integers, Sequences, FiniteSets, TLC

(***************************************************************************)
(* Bounds of the model.                                                    *)
(***************************************************************************)
\* Significant digits of the decimal context.  CPython's default context
\* has 28; the model keeps the same rounding rules with fewer digits so that
\* coefficients stay inside TLC's integers.
DecPrec == 5

\* Significant decimal digits that survive float(): a binary64 keeps 15 to
\* 17 of a Decimal's up to 28 digits; the model keeps FloatDigits of DecPrec.
FloatDigits == 3

\* Largest number of TWAP parts a request asks for.
MaxParts == 3

(***************************************************************************)
(* Text: digits, letters, case conversion, stripping.                      *)
(***************************************************************************)
DigitChars == <<"0", "1", "2", "3", "4", "5", "6", "7", "8", "9">>

LowerChars == <<"a", "b", "c", "d", "e", "f", "g", "h", "i", "j", "k", "l", "m",
                "n", "o", "p", "q", "r", "s", "t", "u", "v", "w", "x", "y", "z">>

UpperChars == <<"A", "B", "C", "D", "E", "F", "G", "H", "I", "J", "K", "L", "M",
                "N", "O", "P", "Q", "R", "S", "T", "U", "V", "W", "X", "Y", "Z">>

IsDigit(ch) == \E k \in 1..10 : DigitChars[k] = ch

DigitVal(ch) == (CHOOSE k \in 1..10 : DigitChars[k] = ch) - 1

\* str.upper() on one character.
UpperChar(ch) ==
    IF \E k \in 1..26 : LowerChars[k] = ch
    THEN UpperChars[CHOOSE k \in 1..26 : LowerChars[k] = ch]
    ELSE ch

\* str.upper()
StrUpper(txt) == [k \in 1..Len(txt) |-> UpperChar(txt[k])]

\* str.strip(): leading and trailing blanks removed.
RECURSIVE StrStrip(_)
StrStrip(txt) ==
    IF txt = <<>> THEN txt
    ELSE IF Head(txt) = " " THEN StrStrip(Tail(txt))
    ELSE IF txt[Len(txt)] = " " THEN StrStrip(SubSeq(txt, 1, Len(txt) - 1))
    ELSE txt

RECURSIVE Pow10(_)
Pow10(k) == IF k <= 0 THEN 1 ELSE 10 * Pow10(k - 1)

Abs(n) == IF n < 0 THEN -n ELSE n

Sign(n) == IF n < 0 THEN -1 ELSE 1

\* len(str(n)) for n >= 0
RECURSIVE NumDigits(_)
NumDigits(n) == IF n < 10 THEN 1 ELSE 1 + NumDigits(n \div 10)

\* The number a sequence of digit characters writes.
RECURSIVE DigitsValue(_)
DigitsValue(ds) ==
    IF ds = <<>> THEN 0
    ELSE 10 * DigitsValue(SubSeq(ds, 1, Len(ds) - 1)) + DigitVal(ds[Len(ds)])

\* str(n) for an integer n
RECURSIVE NatText(_)
NatText(n) ==
    IF n < 10 THEN <<DigitChars[n + 1]>>
    ELSE Append(NatText(n \div 10), DigitChars[(n % 10) + 1])

IntText(n) == IF n < 0 THEN <<"-">> \o NatText(-n) ELSE NatText(n)

(***************************************************************************)
(* Parsing.  A parse result is [ok, c, e]: the value c * 10^e.             *)
(***************************************************************************)
ParseFail == [ok |-> FALSE, c |-> 0, e |-> 0]

Unsigned(txt) ==
    IF txt # <<>> /\ Head(txt) \in {"+", "-"} THEN Tail(txt) ELSE txt

TextSign(txt) == IF txt # <<>> /\ Head(txt) = "-" THEN -1 ELSE 1

\* Decimal(value): an optional sign, digits with at most one point and at
\* least one digit.  Anything else is InvalidOperation (exponents and the
\* special values are outside the texts the model feeds in).
DecimalParse(txt) ==
    LET body == Unsigned(txt)
        dots == {k \in 1..Len(body) : body[k] = "."}
        digs == SelectSeq(body, IsDigit)
    IN  IF /\ Cardinality(dots) <= 1
           /\ Len(digs) >= 1
           /\ Len(digs) + Cardinality(dots) = Len(body)
        THEN [ok |-> TRUE,
              c  |-> TextSign(txt) * DigitsValue(digs),
              e  |-> IF dots = {} THEN 0
                     ELSE -(Len(body) - (CHOOSE k \in dots : TRUE))]
        ELSE ParseFail

\* int(value): an optional sign and at least one digit, nothing else.
IntParse(txt) ==
    LET body == Unsigned(txt)
    IN  IF Len(body) >= 1 /\ \A k \in 1..Len(body) : IsDigit(body[k])
        THEN [ok |-> TRUE, c |-> TextSign(txt) * DigitsValue(body), e |-> 0]
        ELSE ParseFail

(***************************************************************************)
(* Decimal arithmetic, as the decimal module does it in its default        *)
(* context (ROUND_HALF_EVEN, DecPrec significant digits).  An operation    *)
(* that can signal returns [raised, exc, c, e].                            *)
(***************************************************************************)
Dec(c, e) == [c |-> c, e |-> e]

DecOk(c, e) == [raised |-> FALSE, exc |-> "", c |-> c, e |-> e]

DecRaise(exc) == [raised |-> TRUE, exc |-> exc, c |-> 0, e |-> 0]

\* n / d rounded to the nearest integer, ties to even (n >= 0, d > 0).
RoundHalfEven(n, d) ==
    LET q == n \div d
        r == n % d
    IN  IF 2 * r > d \/ (2 * r = d /\ q % 2 = 1) THEN q + 1 ELSE q

\* c * 10^e rounded to at most `digits` significant digits.
RoundDigits(c, e, digits) ==
    LET n == NumDigits(Abs(c)) IN
    IF n <= digits THEN Dec(c, e)
    ELSE LET drop == n - digits
             q    == RoundHalfEven(Abs(c), Pow10(drop))
         IN  IF q = Pow10(digits)
             THEN Dec(Sign(c) * (q \div 10), e + drop + 1)
             ELSE Dec(Sign(c) * q, e + drop)

\* Decimal._fix: the context's rounding of a result.
DecFix(c, e) == RoundDigits(c, e, DecPrec)

\* Trailing zeros of the coefficient moved into the exponent, up to
\* exponent `upto`.
RECURSIVE StripZeros(_, _, _)
StripZeros(c, e, upto) ==
    IF c # 0 /\ c % 10 = 0 /\ e < upto THEN StripZeros(c \div 10, e + 1, upto)
    ELSE Dec(c, e)

\* The one representation of a value: no trailing zero in the coefficient,
\* and zero written 0 * 10^0.
DecNormal(d) ==
    IF d.c = 0 THEN Dec(0, 0)
    ELSE StripZeros(d.c, d.e, d.e + NumDigits(Abs(d.c)))

MinOf(a, b) == IF a <= b THEN a ELSE b

\* The coefficient of d at exponent m (m <= d.e).
Scaled(d, m) == d.c * Pow10(d.e - m)

\* Numeric comparison of two decimals.
DecEq(a, b) == Scaled(a, MinOf(a.e, b.e)) = Scaled(b, MinOf(a.e, b.e))

DecLe(a, b) == Scaled(a, MinOf(a.e, b.e)) <= Scaled(b, MinOf(a.e, b.e))

DecLt(a, b) == Scaled(a, MinOf(a.e, b.e)) < Scaled(b, MinOf(a.e, b.e))

\* Exact sum and exact product with an integer (no rounding): the
\* arithmetic the claims are stated in, not an operation of the program.
DecSum(a, b) ==
    Dec(Scaled(a, MinOf(a.e, b.e)) + Scaled(b, MinOf(a.e, b.e)), MinOf(a.e, b.e))

DecTimes(a, n) == Dec(a.c * n, a.e)

\* Decimal.__truediv__ with an int divisor: total_qty / parts.
DecDivide(a, n) ==
    IF n = 0
    THEN DecRaise(IF a.c = 0 THEN "InvalidOperation" ELSE "DivisionByZero")
    ELSE IF a.c = 0 THEN DecOk(0, a.e)
    ELSE LET sgn   == Sign(a.c) * Sign(n)
             shift == NumDigits(Abs(n)) - NumDigits(Abs(a.c)) + DecPrec + 1
             num   == IF shift >= 0 THEN Abs(a.c) * Pow10(shift) ELSE Abs(a.c)
             den   == IF shift >= 0 THEN Abs(n) ELSE Abs(n) * Pow10(-shift)
             q     == num \div den
             r     == num % den
             \* inexact: make the dropped digits visible to the rounding
             sticky == IF r # 0 /\ q % 5 = 0 THEN q + 1 ELSE q
             \* exact: get as close to the ideal exponent as possible
             exact == StripZeros(q, a.e - shift, a.e)
             res   == IF r # 0 THEN DecFix(sticky, a.e - shift)
                      ELSE DecFix(exact.c, exact.e)
         IN  DecOk(sgn * res.c, res.e)

\* Decimal.__floordiv__: the integer part of a / b, truncated toward zero;
\* DivisionImpossible when it has more digits than the context holds.
DecFloorDiv(a, b) ==
    IF b.c = 0
    THEN DecRaise(IF a.c = 0 THEN "InvalidOperation" ELSE "DivisionByZero")
    ELSE LET m == MinOf(a.e, b.e)
             q == Abs(Scaled(a, m)) \div Abs(Scaled(b, m))
         IN  IF NumDigits(q) > DecPrec THEN DecRaise("InvalidOperation")
             ELSE DecOk(Sign(a.c) * Sign(b.c) * q, 0)

\* Decimal.__mul__
DecMul(a, b) ==
    LET res == DecFix(a.c * b.c, a.e + b.e) IN DecOk(res.c, res.e)

\* float(d): the digits a binary64 keeps of the decimal.
ToFloat(d) == DecNormal(RoundDigits(d.c, d.e, FloatDigits))

(***************************************************************************)
(* What the user can type, and what the exchange can answer.               *)
(***************************************************************************)
SymbolTexts == { <<"B", "T", "C", "U", "S", "D", "T">>,
                 <<"e", "t", "h", "u", "s", "d", "t">> }

SideTexts == { <<"B", "U", "Y">>,
               <<" ", "s", "e", "l", "l">>,
               <<"h", "o", "l", "d">> }

QtyTexts == { <<"0", ".", "0", "0", "9">>,
              <<"1">>,
              <<"0", ".", "0", "0", "2", "5">>,
              <<"0">>,
              <<"-", "0", ".", "0", "0", "1", "5">>,
              <<"a", "b", "c">> }

PriceTexts == { <<"2", "5", "0", ".", "5", "7">>,
                <<"-", "5">>,
                <<"x">> }

PartsTexts == { IntText(n) : n \in -1..MaxParts } \cup { <<"x">> }

IntervalTexts == { <<"0">>, <<"5">>, <<"-", "1">> }

\* What a call of the exchange client's order endpoint does: it returns the
\* exchange's acknowledgment or raises (network error, rejected order).
Failures == { "network error", "order rejected" }

Outcomes ==
    { [raised |-> FALSE, msg |-> ""] } \cup
    { [raised |-> TRUE, msg |-> m] : m \in Failures }

\* What client.get_symbol_info does: it raises, returns None, or returns
\* the symbol's filters (LOT_SIZE stepSize, PRICE_FILTER tickSize).
InfoOutcomes ==
    { [kind |-> "raise", msg |-> m, step |-> <<>>, tick |-> <<>>] : m \in Failures }
    \cup { [kind |-> "none", msg |-> "", step |-> <<>>, tick |-> <<>>] }
    \cup { [kind |-> "ok", msg |-> "",
            step |-> <<"0", ".", "0", "0", "1">>, tick |-> <<"0", ".", "0", "1">>],
           [kind |-> "ok", msg |-> "",
            step |-> <<"0", ".", "0", "1">>, tick |-> <<"0", ".", "1">>] }

(***************************************************************************)
(* Records.                                                                *)
(***************************************************************************)
NoText == <<>>

NoDec == Dec(0, 0)

Request(path, cmd, symbol, side, qty, price, parts, interval) ==
    [path |-> path, cmd |-> cmd, symbol |-> symbol, side |-> side, qty |-> qty,
     price |-> price, parts |-> parts, interval |-> interval]

NoRequest == Request("", "", NoText, NoText, NoText, NoText, NoText, NoText)

\* One call on the exchange client, or one pause, in the order they happen.
OrderCall(type, symbol, side, quantity, price, tif, outcome) ==
    [kind |-> "order", type |-> type, symbol |-> symbol, side |-> side,
     quantity |-> quantity, price |-> price, tif |-> tif, secs |-> 0,
     raised |-> outcome.raised, msg |-> outcome.msg]

InfoCall(symbol, raised, msg) ==
    [kind |-> "symbol_info", type |-> "", symbol |-> symbol, side |-> NoText,
     quantity |-> NoDec, price |-> NoDec, tif |-> "", secs |-> 0,
     raised |-> raised, msg |-> msg]

SleepCall(secs) ==
    [kind |-> "sleep", type |-> "", symbol |-> NoText, side |-> NoText,
     quantity |-> NoDec, price |-> NoDec, tif |-> "", secs |-> secs,
     raised |-> FALSE, msg |-> ""]

\* An order result: the exchange's acknowledgment, or {"error": str(e)}.
Ack(id) == [variant |-> "ack", error |-> "", orderId |-> id]

ErrorRecord(msg) == [variant |-> "error", error |-> msg, orderId |-> 0]

Outcome(kind, exc) == [kind |-> kind, exc |-> exc]

\* The locals of a TWAP run.
TwapLocals(entered, symbol, side, total, piece, parts, interval, i) ==
    [entered |-> entered, symbol |-> symbol, side |-> side, total_qty |-> total,
     piece |-> piece, parts |-> parts, interval |-> interval, i |-> i]

NoTwap == TwapLocals(FALSE, NoText, NoText, NoDec, NoDec, 0, 0, 0)

OrdersOf(evs) == SelectSeq(evs, LAMBDA ev : ev.kind = "order")

(***************************************************************************)
(* src/trading_bot.py: validators and FuturesBot.                          *)
(***************************************************************************)
BUY == <<"B", "U", "Y">>

SELL == <<"S", "E", "L", "L">>

\* parse_decimal of the command line: ArgumentTypeError unless the text is
\* a decimal and the decimal is positive.
parse_decimal(txt) ==
    LET d == DecimalParse(txt)
    IN  IF ~d.ok THEN ParseFail
        ELSE IF d.c <= 0 THEN ParseFail
        ELSE d

\* validate_side
validate_side(txt) ==
    LET s2 == StrUpper(StrStrip(txt))
    IN  [ok |-> s2 \in {BUY, SELL}, side |-> s2]

\* A variant without the handler: what the client raised leaves the method.
PropagatedResult(outcome, id) ==
    [raised |-> outcome.raised, exc |-> outcome.msg, value |-> Ack(id)]

\* A variant whose handler drops the exception's text.
CaughtResultLosesMessage(outcome, id) ==
    [raised |-> FALSE, exc |-> "",
     value |-> IF outcome.raised THEN ErrorRecord("") ELSE Ack(id)]

\* The handler of FuturesBot.market and FuturesBot.limit: `except Exception`
\* turns whatever the client raised into {"error": str(e)}.
CaughtResult(outcome, id) ==
    [raised |-> FALSE, exc |-> "",
     value |-> IF outcome.raised THEN ErrorRecord(outcome.msg) ELSE Ack(id)]

\* FuturesBot.market: one futures_create_order call.  `id` is the order id
\* the exchange would acknowledge with.
market(symbol, side, qty, outcome, id) ==
    [call |-> OrderCall("MARKET", StrUpper(symbol), side, ToFloat(qty), NoDec,
                        "", outcome),
     res  |-> CaughtResult(outcome, id)]

\* FuturesBot.limit: one futures_create_order call; the price goes out as
\* str(price), which writes the decimal's coefficient and exponent as is.
limit(symbol, side, qty, price, outcome, id) ==
    [call |-> OrderCall("LIMIT", StrUpper(symbol), side, ToFloat(qty), price,
                        "GTC", outcome),
     res  |-> CaughtResult(outcome, id)]

\* A variant that divides with //, the integer part of the quotient.
TwapPieceFloorDiv(total_qty, parts) == DecFloorDiv(total_qty, Dec(parts, 0))

\* FuturesBot.twap: piece = total_qty / parts
TwapPiece(total_qty, parts) == DecDivide(total_qty, parts)

\* A variant of the loop that runs one turn too many.
TwapLoopOneTooMany(i, parts) == i <= parts

\* for i in range(parts)
TwapLoopContinues(i, parts) == i < parts

\* if i < parts - 1
TwapNeedsPause(i, parts) == i < parts - 1

\* time.sleep(interval) raises ValueError for a negative length.
SleepRaises(interval) == interval < 0

(***************************************************************************)
(* src/trading_bot_ui.py: helpers.                                         *)
(***************************************************************************)
\* parse_decimal of the window: ValueError unless the text is a decimal.
ui_parse_decimal(txt) == DecimalParse(txt)

\* get_symbol_info: the call, and what the function does with the answer.
get_symbol_info(symbol, io) ==
    [call   |-> InfoCall(StrUpper(symbol), io.kind = "raise", io.msg),
     raised |-> io.kind # "ok",
     exc    |-> IF io.kind = "raise" THEN io.msg
                ELSE IF io.kind = "none" THEN "Symbol not found" ELSE "",
     step   |-> io.step,
     tick   |-> io.tick]

\* adjust_quantity: step = Decimal(lot_size['stepSize']);
\* (qty // step) * step
adjust_quantity(qty, stepText) ==
    LET step == DecimalParse(stepText)
        q    == DecFloorDiv(qty, Dec(step.c, step.e))
    IN  IF ~step.ok THEN DecRaise("InvalidOperation")
        ELSE IF q.raised THEN q
        ELSE DecMul(Dec(q.c, q.e), Dec(step.c, step.e))

\* adjust_price: tick = Decimal(price_filter['tickSize']);
\* (price // tick) * tick
adjust_price(price, tickText) ==
    LET tick == DecimalParse(tickText)
        q    == DecFloorDiv(price, Dec(tick.c, tick.e))
    IN  IF ~tick.ok THEN DecRaise("InvalidOperation")
        ELSE IF q.raised THEN q
        ELSE DecMul(Dec(q.c, q.e), Dec(tick.c, tick.e))

\* One application of a rounding helper: the value, the step, the result.
Adjusted(fromParse, v, stepText, r) ==
    [fromParse |-> fromParse, v |-> v,
     s |-> Dec(DecimalParse(stepText).c, DecimalParse(stepText).e),
     r |-> Dec(r.c, r.e)]

(***************************************************************************)
(* State.                                                                  *)
(***************************************************************************)
VARIABLES
    pc,       \* where the request is: "idle", a place in a TWAP loop, "done"
    req,      \* the request as typed
    tw,       \* the locals of the TWAP run
    events,   \* the calls on the exchange client and the pauses, in order
    results,  \* the TWAP run's result list
    ret,      \* what market or limit returned (at most one order result)
    adj,      \* the applications of adjust_quantity and adjust_price
    out       \* how the request ended

vars == <<pc, req, tw, events, results, ret, adj, out>>

\* The process with its exchange client built and no request handled yet.
\* (Building the client is the SDK's business and is not followed here.)
Init ==
    /\ pc = "idle"
    /\ req = NoRequest
    /\ tw = NoTwap
    /\ events = <<>>
    /\ results = <<>>
    /\ ret = <<>>
    /\ adj = <<>>
    /\ out = Outcome("none", "")

NextOrderId == Len(OrdersOf(events)) + 1

(***************************************************************************)
(* src/trading_bot.py: main.  parse_args() runs every validator before    *)
(* the bot is built; a validator's error ends the process with a usage    *)
(* error.  An exception nothing catches ends it with a traceback.          *)
(***************************************************************************)
\* main, subcommand market
main_market ==
    /\ pc = "idle"
    /\ \E symbol \in SymbolTexts, side \in SideTexts, qty \in QtyTexts,
          o \in Outcomes :
          LET s == validate_side(side)
              q == parse_decimal(qty)
              m == market(symbol, s.side, Dec(q.c, q.e), o, NextOrderId)
          IN  /\ req' = Request("cli", "market", symbol, side, qty, NoText,
                                NoText, NoText)
              /\ IF s.ok /\ q.ok
                 THEN /\ events' = Append(events, m.call)
                      /\ IF m.res.raised
                         THEN ret' = ret /\ out' = Outcome("crash", m.res.exc)
                         ELSE ret' = <<m.res.value>> /\ out' = Outcome("printed", "")
                 ELSE /\ events' = events
                      /\ ret' = ret
                      /\ out' = Outcome("usage_error", "")
    /\ pc' = "done"
    /\ UNCHANGED <<tw, results, adj>>

\* main, subcommand limit
main_limit ==
    /\ pc = "idle"
    /\ \E symbol \in SymbolTexts, side \in SideTexts, qty \in QtyTexts,
          price \in PriceTexts, o \in Outcomes :
          LET s == validate_side(side)
              q == parse_decimal(qty)
              p == parse_decimal(price)
              m == limit(symbol, s.side, Dec(q.c, q.e), Dec(p.c, p.e), o,
                         NextOrderId)
          IN  /\ req' = Request("cli", "limit", symbol, side, qty, price,
                                NoText, NoText)
              /\ IF s.ok /\ q.ok /\ p.ok
                 THEN /\ events' = Append(events, m.call)
                      /\ IF m.res.raised
                         THEN ret' = ret /\ out' = Outcome("crash", m.res.exc)
                         ELSE ret' = <<m.res.value>> /\ out' = Outcome("printed", "")
                 ELSE /\ events' = events
                      /\ ret' = ret
                      /\ out' = Outcome("usage_error", "")
    /\ pc' = "done"
    /\ UNCHANGED <<tw, results, adj>>

\* main, subcommand twap, up to the loop of FuturesBot.twap:
\* piece = total_qty / parts; results = []
main_twap ==
    /\ pc = "idle"
    /\ \E symbol \in SymbolTexts, side \in SideTexts, qty \in QtyTexts,
          parts \in PartsTexts, interval \in IntervalTexts :
          LET s     == validate_side(side)
              q     == parse_decimal(qty)
              p     == IntParse(parts)
              iv    == IntParse(interval)
              total == Dec(q.c, q.e)
              piece == TwapPiece(total, p.c)
          IN  /\ req' = Request("cli", "twap", symbol, side, qty, NoText,
                                parts, interval)
              /\ IF ~(s.ok /\ q.ok /\ p.ok /\ iv.ok)
                 THEN /\ tw' = tw
                      /\ out' = Outcome("usage_error", "")
                      /\ pc' = "done"
                 ELSE IF piece.raised
                 THEN /\ tw' = TwapLocals(TRUE, symbol, s.side, total, NoDec,
                                          p.c, iv.c, 0)
                      /\ out' = Outcome("crash", piece.exc)
                      /\ pc' = "done"
                 ELSE /\ tw' = TwapLocals(TRUE, symbol, s.side, total,
                                          Dec(piece.c, piece.e), p.c, iv.c, 0)
                      /\ out' = out
                      /\ pc' = "twap_loop"
    /\ UNCHANGED <<events, results, ret, adj>>

\* FuturesBot.twap, one turn of the loop:
\* resp = self.market(symbol, side, piece); results.append(resp)
twap_submit ==
    /\ pc = "twap_loop"
    /\ TwapLoopContinues(tw.i, tw.parts)
    /\ \E o \in Outcomes :
          LET m == market(tw.symbol, tw.side, tw.piece, o, NextOrderId)
          IN  /\ events' = Append(events, m.call)
              /\ IF m.res.raised
                 THEN /\ results' = results
                      /\ tw' = tw
                      /\ out' = Outcome("crash", m.res.exc)
                      /\ pc' = "done"
                 ELSE /\ results' = Append(results, m.res.value)
                      /\ out' = out
                      /\ IF TwapNeedsPause(tw.i, tw.parts)
                         THEN tw' = tw /\ pc' = "twap_sleep"
                         ELSE tw' = [tw EXCEPT !.i = @ + 1] /\ pc' = "twap_loop"
    /\ UNCHANGED <<req, ret, adj>>

\* FuturesBot.twap: time.sleep(interval)
twap_sleep ==
    /\ pc = "twap_sleep"
    /\ IF SleepRaises(tw.interval)
       THEN /\ events' = events
            /\ tw' = tw
            /\ out' = Outcome("crash", "ValueError")
            /\ pc' = "done"
       ELSE /\ events' = Append(events, SleepCall(tw.interval))
            /\ tw' = [tw EXCEPT !.i = @ + 1]
            /\ out' = out
            /\ pc' = "twap_loop"
    /\ UNCHANGED <<req, results, ret, adj>>

\* FuturesBot.twap: return {"twap_results": results}, which main prints.
twap_return ==
    /\ pc = "twap_loop"
    /\ ~TwapLoopContinues(tw.i, tw.parts)
    /\ out' = Outcome("printed", "")
    /\ pc' = "done"
    /\ UNCHANGED <<req, tw, events, results, ret, adj>>

(***************************************************************************)
(* src/trading_bot_ui.py: the three button handlers.  Each wraps its body  *)
(* in try/except Exception and shows the exception in an error box.        *)
(***************************************************************************)
\* place_market
place_market ==
    /\ pc = "idle"
    /\ \E symbolText \in SymbolTexts, sideText \in SideTexts, qtyText \in QtyTexts,
          io \in InfoOutcomes, o \in Outcomes :
          LET symbol  == StrUpper(symbolText)
              side    == StrUpper(sideText)
              qty     == ui_parse_decimal(qtyText)
              info    == get_symbol_info(symbol, io)
              qty_adj == adjust_quantity(Dec(qty.c, qty.e), info.step)
              order   == OrderCall("MARKET", symbol, side,
                                   ToFloat(Dec(qty_adj.c, qty_adj.e)), NoDec, "", o)
          IN  /\ req' = Request("gui", "market", symbolText, sideText, qtyText,
                                NoText, NoText, NoText)
              /\ IF ~qty.ok
                 THEN /\ events' = events
                      /\ adj' = adj
                      /\ ret' = ret
                      /\ out' = Outcome("errorbox", "Invalid number")
                 ELSE IF info.raised
                 THEN /\ events' = Append(events, info.call)
                      /\ adj' = adj
                      /\ ret' = ret
                      /\ out' = Outcome("errorbox", info.exc)
                 ELSE IF qty_adj.raised
                 THEN /\ events' = Append(events, info.call)
                      /\ adj' = adj
                      /\ ret' = ret
                      /\ out' = Outcome("errorbox", qty_adj.exc)
                 ELSE /\ events' = events \o <<info.call, order>>
                      /\ adj' = Append(adj, Adjusted(TRUE, Dec(qty.c, qty.e),
                                                     info.step, qty_adj))
                      /\ IF o.raised
                         THEN ret' = ret /\ out' = Outcome("errorbox", o.msg)
                         ELSE /\ ret' = <<Ack(NextOrderId)>>
                              /\ out' = Outcome("displayed", "")
    /\ pc' = "done"
    /\ UNCHANGED <<tw, results>>

\* place_limit
place_limit ==
    /\ pc = "idle"
    /\ \E symbolText \in SymbolTexts, sideText \in SideTexts, qtyText \in QtyTexts,
          priceText \in PriceTexts, io \in InfoOutcomes, o \in Outcomes :
          LET symbol    == StrUpper(symbolText)
              side      == StrUpper(sideText)
              qty       == ui_parse_decimal(qtyText)
              price     == ui_parse_decimal(priceText)
              info      == get_symbol_info(symbol, io)
              qty_adj   == adjust_quantity(Dec(qty.c, qty.e), info.step)
              price_adj == adjust_price(Dec(price.c, price.e), info.tick)
              order     == OrderCall("LIMIT", symbol, side,
                                     ToFloat(Dec(qty_adj.c, qty_adj.e)),
                                     Dec(price_adj.c, price_adj.e), "GTC", o)
              adjQty    == Adjusted(TRUE, Dec(qty.c, qty.e), info.step, qty_adj)
              adjPrice  == Adjusted(TRUE, Dec(price.c, price.e), info.tick,
                                    price_adj)
          IN  /\ req' = Request("gui", "limit", symbolText, sideText, qtyText,
                                priceText, NoText, NoText)
              /\ IF ~qty.ok \/ ~price.ok
                 THEN /\ events' = events
                      /\ adj' = adj
                      /\ ret' = ret
                      /\ out' = Outcome("errorbox", "Invalid number")
                 ELSE IF info.raised
                 THEN /\ events' = Append(events, info.call)
                      /\ adj' = adj
                      /\ ret' = ret
                      /\ out' = Outcome("errorbox", info.exc)
                 ELSE IF qty_adj.raised
                 THEN /\ events' = Append(events, info.call)
                      /\ adj' = adj
                      /\ ret' = ret
                      /\ out' = Outcome("errorbox", qty_adj.exc)
                 ELSE IF price_adj.raised
                 THEN /\ events' = Append(events, info.call)
                      /\ adj' = Append(adj, adjQty)
                      /\ ret' = ret
                      /\ out' = Outcome("errorbox", price_adj.exc)
                 ELSE /\ events' = events \o <<info.call, order>>
                      /\ adj' = adj \o <<adjQty, adjPrice>>
                      /\ IF o.raised
                         THEN ret' = ret /\ out' = Outcome("errorbox", o.msg)
                         ELSE /\ ret' = <<Ack(NextOrderId)>>
                              /\ out' = Outcome("displayed", "")
    /\ pc' = "done"
    /\ UNCHANGED <<tw, results>>

\* place_twap, up to its loop: the parsing, get_symbol_info,
\* piece = adjust_quantity(qty / parts, lot_size), results = []
place_twap_start ==
    /\ pc = "idle"
    /\ \E symbolText \in SymbolTexts, sideText \in SideTexts, qtyText \in QtyTexts,
          partsText \in PartsTexts, intervalText \in IntervalTexts,
          io \in InfoOutcomes :
          LET symbol   == StrUpper(symbolText)
              side     == StrUpper(sideText)
              qty      == ui_parse_decimal(qtyText)
              parts    == IntParse(partsText)
              interval == IntParse(intervalText)
              info     == get_symbol_info(symbol, io)
              total    == Dec(qty.c, qty.e)
              share    == DecDivide(total, parts.c)
              piece    == adjust_quantity(Dec(share.c, share.e), info.step)
              entered  == TwapLocals(TRUE, symbol, side, total, NoDec, parts.c,
                                     interval.c, 0)
          IN  /\ req' = Request("gui", "twap", symbolText, sideText, qtyText,
                                NoText, partsText, intervalText)
              /\ IF ~qty.ok
                 THEN /\ events' = events /\ adj' = adj /\ tw' = tw
                      /\ out' = Outcome("errorbox", "Invalid number")
                      /\ pc' = "done"
                 ELSE IF ~parts.ok \/ ~interval.ok
                 THEN /\ events' = events /\ adj' = adj /\ tw' = tw
                      /\ out' = Outcome("errorbox", "ValueError")
                      /\ pc' = "done"
                 ELSE IF info.raised
                 THEN /\ events' = Append(events, info.call)
                      /\ adj' = adj /\ tw' = tw
                      /\ out' = Outcome("errorbox", info.exc)
                      /\ pc' = "done"
                 ELSE IF share.raised
                 THEN /\ events' = Append(events, info.call)
                      /\ adj' = adj /\ tw' = entered
                      /\ out' = Outcome("errorbox", share.exc)
                      /\ pc' = "done"
                 ELSE IF piece.raised
                 THEN /\ events' = Append(events, info.call)
                      /\ adj' = adj /\ tw' = entered
                      /\ out' = Outcome("errorbox", piece.exc)
                      /\ pc' = "done"
                 ELSE /\ events' = Append(events, info.call)
                      /\ adj' = Append(adj, Adjusted(FALSE, Dec(share.c, share.e),
                                                     info.step, piece))
                      /\ tw' = [entered EXCEPT !.piece = Dec(piece.c, piece.e)]
                      /\ out' = out
                      /\ pc' = "gui_twap_loop"
    /\ UNCHANGED <<results, ret>>

\* place_twap, one turn of the loop: order = client.create_order(...);
\* results.append(order).  An exception leaves the loop for the handler.
place_twap_submit ==
    /\ pc = "gui_twap_loop"
    /\ tw.i < tw.parts
    /\ \E o \in Outcomes :
          /\ events' = Append(events, OrderCall("MARKET", tw.symbol, tw.side,
                                                ToFloat(tw.piece), NoDec, "", o))
          /\ IF o.raised
             THEN /\ results' = results
                  /\ tw' = tw
                  /\ out' = Outcome("errorbox", o.msg)
                  /\ pc' = "done"
             ELSE /\ results' = Append(results, Ack(NextOrderId))
                  /\ out' = out
                  /\ IF tw.i < tw.parts - 1
                     THEN tw' = tw /\ pc' = "gui_twap_sleep"
                     ELSE tw' = [tw EXCEPT !.i = @ + 1] /\ pc' = "gui_twap_loop"
    /\ UNCHANGED <<req, ret, adj>>

\* place_twap: root.update(); time.sleep(interval)
place_twap_sleep ==
    /\ pc = "gui_twap_sleep"
    /\ IF SleepRaises(tw.interval)
       THEN /\ events' = events
            /\ tw' = tw
            /\ out' = Outcome("errorbox", "ValueError")
            /\ pc' = "done"
       ELSE /\ events' = Append(events, SleepCall(tw.interval))
            /\ tw' = [tw EXCEPT !.i = @ + 1]
            /\ out' = out
            /\ pc' = "gui_twap_loop"
    /\ UNCHANGED <<req, results, ret, adj>>

\* place_twap: the loop is over, "TWAP completed." is shown.
place_twap_done ==
    /\ pc = "gui_twap_loop"
    /\ ~(tw.i < tw.parts)
    /\ out' = Outcome("completed", "")
    /\ pc' = "done"
    /\ UNCHANGED <<req, tw, events, results, ret, adj>>

Next ==
    \/ main_market
    \/ main_limit
    \/ main_twap
    \/ twap_submit
    \/ twap_sleep
    \/ twap_return
    \/ place_market
    \/ place_limit
    \/ place_twap_start
    \/ place_twap_submit
    \/ place_twap_sleep
    \/ place_twap_done

Spec == Init /\ [][Next]_vars

\* The command line's TWAP run is one blocking thread: whenever its next
\* statement can run, it does.
FairSpec ==
    Spec /\ WF_vars(twap_submit) /\ WF_vars(twap_sleep) /\ WF_vars(twap_return)

(***************************************************************************)
(* Properties.                                                             *)
(***************************************************************************)
Orders == OrdersOf(events)

\* A call of FuturesBot.twap made by the command line.
CliTwapCall == req.path = "cli" /\ req.cmd = "twap" /\ tw.entered

\* A call of FuturesBot.market or FuturesBot.limit made by the command line.
CliSingleCall == req.path = "cli" /\ req.cmd \in {"market", "limit"} /\ events # <<>>

\* The text is no decimal, or the decimal is <= 0.
BadQuantity(txt) == ~DecimalParse(txt).ok \/ DecimalParse(txt).c <= 0

\* What the i-th slot of a result list must hold for the i-th submission.
SlotFor(call, k) == IF call.raised THEN ErrorRecord(call.msg) ELSE Ack(k)

\* The exact sum of the quantities of a sequence of calls.
RECURSIVE SumQuantity(_)
SumQuantity(calls) ==
    IF calls = <<>> THEN NoDec
    ELSE DecSum(Head(calls).quantity, SumQuantity(Tail(calls)))

\* What total_qty / parts is, whatever the run stored.
PlannedPiece ==
    LET d == DecDivide(tw.total_qty, tw.parts) IN Dec(d.c, d.e)

\* C1: one call of FuturesBot.twap with parts = N >= 1 submits exactly N
\* market orders, whatever the steps' outcomes: never more than N while it
\* runs, only market orders, and N once the call has ended.
TwapSubmitsExactlyParts ==
    (CliTwapCall /\ tw.parts >= 1) =>
        /\ Len(Orders) <= tw.parts
        /\ \A k \in 1..Len(Orders) : Orders[k].type = "MARKET"
        /\ pc = "done" => Len(Orders) = tw.parts

\* The same for the runs whose pauses return (interval >= 0).
TwapSubmitsExactlyPartsWhenPausesReturn ==
    (CliTwapCall /\ tw.parts >= 1 /\ tw.interval >= 0) =>
        /\ Len(Orders) <= tw.parts
        /\ \A k \in 1..Len(Orders) : Orders[k].type = "MARKET"
        /\ pc = "done" => Len(Orders) = tw.parts

\* C2: in FuturesBot.twap with parts = N >= 1 the result list is in
\* submission order, slot k holding {"error": message} exactly when the k-th
\* call raised and the acknowledgment of the k-th call otherwise; the list
\* returned has length N; no run is ended by a failure of the exchange call.
TwapResultsInSubmissionOrder ==
    (CliTwapCall /\ tw.parts >= 1) =>
        /\ Len(results) = Len(Orders)
        /\ \A k \in 1..Len(results) : results[k] = SlotFor(Orders[k], k)
        /\ out.kind = "printed" => Len(results) = tw.parts
        /\ out.kind = "crash" => out.exc \notin Failures

\* C2's case: a three-part run returned, its second call having raised and
\* its first and third not.
TwapSecondStepFailedWitness ==
    /\ CliTwapCall
    /\ out.kind = "printed"
    /\ tw.parts = 3
    /\ Len(results) = 3
    /\ results[1].variant = "ack"
    /\ results[2].variant = "error"
    /\ results[3] = Ack(3)

\* C3: a call of FuturesBot.twap with parts = N >= 1 that has ended made
\* submit, pause, submit, ..., submit: N submissions and N - 1 pauses of
\* length interval, each between two submissions.
TwapPausesBetweenSubmissions ==
    (CliTwapCall /\ tw.parts >= 1 /\ pc = "done") =>
        /\ Len(events) = 2 * tw.parts - 1
        /\ \A k \in 1..Len(events) :
              IF k % 2 = 1 THEN events[k].kind = "order"
              ELSE events[k].kind = "sleep" /\ events[k].secs = tw.interval

\* The same for the runs whose pauses return (interval >= 0).
TwapPausesBetweenSubmissionsWhenPausesReturn ==
    (CliTwapCall /\ tw.parts >= 1 /\ tw.interval >= 0 /\ pc = "done") =>
        /\ Len(events) = 2 * tw.parts - 1
        /\ \A k \in 1..Len(events) :
              IF k % 2 = 1 THEN events[k].kind = "order"
              ELSE events[k].kind = "sleep" /\ events[k].secs = tw.interval

\* C4: FuturesBot.market and FuturesBot.limit return normally whatever the
\* exchange call does: the result is {"error": message} when the call raised
\* and the acknowledgment otherwise, and no failure of the exchange call
\* ends the process.
GatewayFailuresAreCaught ==
    /\ out.kind = "crash" => out.exc \notin Failures
    /\ CliSingleCall =>
          /\ out.kind = "printed"
          /\ Len(ret) = 1
          /\ ret[1] = SlotFor(events[1], 1)

\* C4's case: a limit order whose exchange call raised came back as an
\* error record.
LimitFailureReturnedWitness ==
    /\ req.path = "cli"
    /\ req.cmd = "limit"
    /\ Len(events) = 1
    /\ events[1].raised
    /\ out.kind = "printed"
    /\ ret = <<ErrorRecord("order rejected")>>

\* C5: a request whose quantity is <= 0 or no decimal makes no call on the
\* exchange client, on the command line and in the window alike.
BadQuantityMakesNoExchangeCall ==
    (req.cmd # "" /\ BadQuantity(req.qty)) => events = <<>>

\* C6: a TWAP request with parts = 0 is rejected before the TWAP run is
\* entered: no run with parts = 0, no division by zero, no order.
ZeroPartsRejectedBeforeTwap ==
    (req.cmd = "twap" /\ IntParse(req.parts).ok /\ IntParse(req.parts).c = 0) =>
        /\ ~tw.entered
        /\ out.exc \notin {"DivisionByZero", "InvalidOperation"}
        /\ Orders = <<>>

\* C7: a FuturesBot.twap run with parts >= 1 whose exchange calls and pauses
\* return (interval >= 0) eventually returns, and it has then attempted all
\* its parts.
TwapRunReturns ==
    (pc = "twap_loop" /\ tw.parts >= 1 /\ tw.interval >= 0)
        ~> (pc = "done" /\ out.kind = "printed" /\ Len(Orders) = tw.parts)

\* C7's case: a run of several parts returned although every step failed.
TwapAllStepsFailedWitness ==
    /\ CliTwapCall
    /\ out.kind = "printed"
    /\ tw.parts = MaxParts
    /\ Len(results) = MaxParts
    /\ \A k \in 1..Len(results) : results[k].variant = "error"

\* C8: a TWAP run of the window that reached its loop with parts = N >= 1
\* (and pauses that return) submits all N parts and ends completed, whether
\* or not a submission fails.
GuiTwapAttemptsAllParts ==
    (/\ req.path = "gui" /\ req.cmd = "twap" /\ pc = "done"
     /\ tw.entered /\ tw.parts >= 1 /\ tw.interval >= 0 /\ adj # <<>>) =>
        /\ Len(Orders) = tw.parts
        /\ out.kind = "completed"

AdjustFloorsToStep ==
    \A k \in 1..Len(adj) :
        (adj[k].fromParse /\ adj[k].s.c > 0) =>
            LET v     == adj[k].v
                s     == adj[k].s
                r     == adj[k].r
                q     == DecFloorDiv(r, s)
                again == DecMul(Dec(q.c, q.e), s)
            IN  /\ DecEq(DecTimes(s, q.c), r)
                /\ DecLe(r, v)
                /\ DecLt(v, DecSum(r, s))
                /\ DecEq(Dec(again.c, again.e), r)

=============================================================================
